---- MODULE Spec2Model ----
(***************************************************************************)
(* The RLM document worker of plugins/rlm-document-plugin/scripts/         *)
(* rlm_repl.py: a line-delimited JSON-RPC loop (main) around one RlmRepl   *)
(* session object.  One step of the model is one iteration of main's loop: *)
(* read a line, decode it, dispatch it, write the response.                *)
(*                                                                         *)
(* Strings are sequences of one-character strings.  A JSON value is a       *)
(* record tagged by k: "absent" (the key is not in the map), "null", "int", *)
(* "bool", "str" (a text) or "name" (an atom), with its value beside it.    *)
(***************************************************************************)
EXTENDS Integers, Sequences, FiniteSets, TLC

\* ------------------------------------------------------------------ bounds
\* Longest document the file system hands to init.
MaxLen == 2
\* Most buffers a session is driven to hold.
MaxBuffers == 1
\* Longest document, and largest chunkSize, of the runs that chunk one document.
MaxDocLen == 9
MaxChunkSize == 8
\* Longest document, largest maxMatches and largest contextLines of the runs
\* that search one document.
MaxGrepLen == 5
MaxCap == 3
MaxContext == 2
\* Most chunks of the documents of the runs that query one document.
MaxBlocks == 6

\* -------------------------------------------------------------- error codes
ERROR_PARSE == -32700
ERROR_INVALID_REQUEST == -32600
ERROR_METHOD_NOT_FOUND == -32601
ERROR_INVALID_PARAMS == -32602
ERROR_INTERNAL == -32603
ERROR_NOT_INITIALIZED == -32000
ERROR_FILE_NOT_FOUND == -32001
ERROR_INVALID_RANGE == -32002

\* Defaults of init's params.get("chunkSize", 4000), params.get("chunkOverlap", 200).
DefaultChunkSize == 4000
DefaultChunkOverlap == 200

\* -------------------------------------------------------------- JSON values
Absent == [k |-> "absent"]
JNull == [k |-> "null"]
JInt(n) == [k |-> "int", i |-> n]
JBool(b) == [k |-> "bool", b |-> b]
\* A JSON string held as text (a sequence of characters), and one held as an
\* atom (a method name, a path, a code text).
JStr(t) == [k |-> "str", t |-> t]
JName(s) == [k |-> "name", s |-> s]

\* Python's truth value of a JSON value: None, 0, False and "" are falsy.
Truthy(j) ==
  CASE j.k = "absent" -> FALSE
    [] j.k = "null" -> FALSE
    [] j.k = "int" -> j.i # 0
    [] j.k = "bool" -> j.b
    [] j.k = "str" -> j.t # <<>>
    [] j.k = "name" -> j.s # ""

\* The "params" of a request: a map from keys to JSON values (isMap), or a JSON
\* value that is no map, on which .get raises AttributeError.
EmptyMap == [key \in {} |-> Absent]
Map(m) == [isMap |-> TRUE, m |-> m]
NotAMap == [isMap |-> FALSE, m |-> EmptyMap]

\* dict.get(key, default): the default only when the key is not in the map.
Get(params, key, default) ==
  IF key \in DOMAIN params.m THEN params.m[key] ELSE default

\* str(e) of the AttributeError of params.get on a value that is no map.
NoGetMsg == <<"'NoneType' object has no attribute 'get'">>

Min(a, b) == IF a < b THEN a ELSE b
Max(a, b) == IF a > b THEN a ELSE b

\* ------------------------------------------------------------------ strings
NL == "\n"

\* s[a:b] of Python for integers a, b (negative offsets count from the end).
Slice(s, a, b) ==
  LET n == Len(s)
      lo == IF a < 0 THEN Max(n + a, 0) ELSE Min(a, n)
      hi == IF b < 0 THEN Max(n + b, 0) ELSE Min(b, n)
  IN IF lo < hi THEN SubSeq(s, lo + 1, hi) ELSE <<>>

\* s.count("\n")
CountNL(s) == Cardinality({i \in 1..Len(s) : s[i] = NL})

\* s.split("\n"): the pieces between newlines, in order (k + 1 pieces for k newlines).
RECURSIVE SplitFrom(_, _, _)
SplitFrom(s, i, cur) ==
  IF i > Len(s) THEN <<cur>>
  ELSE IF s[i] = NL THEN <<cur>> \o SplitFrom(s, i + 1, <<>>)
  ELSE SplitFrom(s, i + 1, Append(cur, s[i]))

SplitLines(s) == SplitFrom(s, 1, <<>>)

\* _char_to_line: 1-indexed line of a character position.
CharToLine(c, char_pos) ==
  IF char_pos <= 0 THEN 1 ELSE CountNL(Slice(c, 0, char_pos)) + 1

\* f"chunk_{n:03d}": at least three decimal digits.
RECURSIVE Digits(_)
Digits(n) == IF n < 10 THEN <<n>> ELSE Append(Digits(n \div 10), n % 10)

ChunkId(n) ==
  LET d == Digits(n)
  IN [prefix |-> "chunk_",
      digits |-> IF Len(d) >= 3 THEN d
                 ELSE [i \in 1..(3 - Len(d)) |-> 0] \o d]

\* ---------------------------------------------------------------- optionals
\* Optional[str] fields of the session: None, or a value.
None == [some |-> FALSE]
Some(x) == [some |-> TRUE, v |-> x]

\* What a handler does: it returns a value or raises, and leaves a session behind.
\* msg is str(e), a sequence of text parts (<<>> is the empty string).
\* dumps says whether json.dumps can encode the returned value.
Return(self, value) ==
  [ok |-> TRUE, value |-> value, dumps |-> TRUE, msg |-> <<>>, repl |-> self]
Raise(self, msg) ==
  [ok |-> FALSE, value |-> <<>>, dumps |-> TRUE, msg |-> msg, repl |-> self]

\* ------------------------------------------------------------------ session
\* RlmRepl.__init__
NewRepl ==
  [initialized |-> FALSE,
   document_path |-> None,
   content |-> None,
   content_lines |-> None,
   chunk_size |-> JInt(DefaultChunkSize),
   chunk_overlap |-> JInt(DefaultChunkOverlap),
   chunks |-> <<>>,
   buffers |-> <<>>,
   loaded_at |-> None]

\* ----------------------------------------------------------------- chunking
\* The chunk appended by one iteration of _compute_chunks' loop.
NewChunk(c, n, start, end) ==
  LET line_start == CharToLine(c, start)
  IN [id |-> ChunkId(n),
      index |-> n,
      start |-> start,
      end |-> end,
      length |-> end - start,
      lineStart |-> line_start,
      lineEnd |-> IF end > start THEN CharToLine(c, end - 1) ELSE line_start,
      content |-> Slice(c, start, end)]

\* ExtendLast with the extension forgotten: the loop only breaks.
ExtendLast_Forgotten(c, lines, chunks) == chunks

\* "Extend last chunk": the last chunk made to end at len(content).
ExtendLast(c, lines, chunks) ==
  IF chunks = <<>> THEN chunks
  ELSE LET last == chunks[Len(chunks)]
       IN [chunks EXCEPT ![Len(chunks)] =
             [last EXCEPT !.end = Len(c),
                          !.length = Len(c) - last.start,
                          !.content = Slice(c, last.start, Len(c)),
                          !.lineEnd = Len(lines)]]

\* "Avoid tiny final chunks": the test made after start += step.
TinyTail(c, chunk_size, start) ==
  Len(c) - start < chunk_size \div 4 /\ start < Len(c)

\* The while loop of _compute_chunks, from `start` with `chunks` emitted so far.
\* It ends only for step > 0 (for step <= 0 the code does not return either).
RECURSIVE ChunkLoop(_, _, _, _, _, _)
ChunkLoop(c, lines, chunk_size, step, start, chunks) ==
  IF ~(start < Len(c)) THEN chunks
  ELSE LET end == Min(start + chunk_size, Len(c))
           chunks1 == Append(chunks, NewChunk(c, Len(chunks), start, end))
           start1 == start + step
       IN IF TinyTail(c, chunk_size, start1)
          THEN ExtendLast(c, lines, chunks1)
          ELSE ChunkLoop(c, lines, chunk_size, step, start1, chunks1)

\* The chunk list of (content, lines, chunkSize, chunkOverlap), both integers.
Chunks(c, lines, chunk_size, chunk_overlap) ==
  ChunkLoop(c, lines, chunk_size, chunk_size - chunk_overlap, 0, <<>>)

\* EmptyChunks with the chunks of the previous document kept.
EmptyChunks_Kept(self) == self.chunks

\* self.chunks = [] of _compute_chunks
EmptyChunks(self) == <<>>

\* _compute_chunks: self.chunks = [] first; chunk_size - chunk_overlap raises
\* TypeError when either is None, after the list was emptied.
compute_chunks(self) ==
  LET s0 == [self EXCEPT !.chunks = EmptyChunks(self)]
  IN IF s0.chunk_size.k # "int" \/ s0.chunk_overlap.k # "int"
     THEN Raise(s0, <<"unsupported operand type(s) for -: ",
                      s0.chunk_size.k, " and ", s0.chunk_overlap.k>>)
     ELSE Return([s0 EXCEPT !.chunks =
                    ChunkLoop(s0.content.v, s0.content_lines.v, s0.chunk_size.i,
                              s0.chunk_size.i - s0.chunk_overlap.i, 0, s0.chunks)],
                 <<>>)

\* ------------------------------------------------------------------ handlers
\* _require_init
NotInitializedMsg == <<"REPL not initialized. Call 'init' first.">>

\* ClearedBuffers with the buffers of the previous document kept.
ClearedBuffers_Kept(self) == self.buffers

\* self.buffers = [] of method_init
ClearedBuffers(self) == <<>>

\* The end of method_init, cc being what _compute_chunks did: the exception goes
\* up, or the session becomes initialized and the summary is returned.
InitDone(cc, document_path, now) ==
  IF ~cc.ok THEN Raise(cc.repl, cc.msg)
  ELSE Return([cc.repl EXCEPT !.initialized = TRUE],
              [status |-> "initialized",
               documentPath |-> document_path,
               contentLength |-> Len(cc.repl.content.v),
               lineCount |-> Len(cc.repl.content_lines.v),
               chunkCount |-> Len(cc.repl.chunks),
               loadedAt |-> now])

\* method_init.  rd is what open(...).read() does: [st |-> "ok", data |-> text],
\* "notfound" (FileNotFoundError) or "error" (any other exception); now is the
\* clock's reading.
method_init(self, params, rd, now) ==
  LET document_path == Get(params, "documentPath", JNull)
  IN IF ~params.isMap THEN Raise(self, NoGetMsg)
     ELSE IF ~Truthy(document_path)
     THEN Raise(self, <<"documentPath is required">>)
     ELSE
       LET s1 == [self EXCEPT
                    !.chunk_size = Get(params, "chunkSize", JInt(DefaultChunkSize)),
                    !.chunk_overlap = Get(params, "chunkOverlap", JInt(DefaultChunkOverlap))]
       IN IF rd.st = "notfound"
          THEN Raise(s1, <<"Document not found: ", document_path.s>>)
          ELSE IF rd.st # "ok"
          THEN Raise(s1, <<"Failed to read document: ", rd.st>>)
          ELSE
            InitDone(compute_chunks(
                       [s1 EXCEPT !.content = Some(rd.data),
                                  !.document_path = Some(document_path.s),
                                  !.content_lines = Some(SplitLines(rd.data)),
                                  !.loaded_at = Some(now),
                                  !.buffers = ClearedBuffers(s1)]),
                     document_path.s, now)

\* method_peek
method_peek(self, params) ==
  IF ~self.initialized THEN Raise(self, NotInitializedMsg)
  ELSE IF ~params.isMap THEN Raise(self, NoGetMsg)
  ELSE
    LET c == self.content.v
        start0 == Get(params, "start", JInt(0)).i
        end0 == Get(params, "end", JInt(Len(c))).i
        start == IF start0 < 0 THEN 0 ELSE start0
        end == IF end0 > Len(c) THEN Len(c) ELSE end0
    IN IF start >= end
       THEN Raise(self, <<"Invalid range: ", ToString(start), "-", ToString(end)>>)
       ELSE
         LET content == Slice(c, start, end)
             line_start == CharToLine(c, start)
         IN Return(self,
              [content |-> content,
               start |-> start,
               end |-> end,
               length |-> Len(content),
               lineStart |-> line_start,
               lineEnd |-> IF end > 0 THEN CharToLine(c, end - 1) ELSE line_start])

\* --------------------------------------------------------------------- grep
\* str.lower() of one character.
Lower(ch) == IF ch = "A" THEN "a" ELSE ch

LowerStr(s) == [i \in 1..Len(s) |-> Lower(s[i])]

\* Whether literal text p occurs in c at 0-based offset i, ignoring case.
MatchAt(c, p, i) ==
  /\ i + Len(p) <= Len(c)
  /\ \A j \in 1..Len(p) : Lower(c[i + j]) = Lower(p[j])

\* regex.finditer(content) for a pattern that is literal text: the successive
\* non-overlapping matches from offset pos on, leftmost first, as [start, end].
RECURSIVE FindIter(_, _, _)
FindIter(c, p, pos) ==
  IF pos + Len(p) > Len(c) THEN <<>>
  ELSE IF MatchAt(c, p, pos)
  THEN <<[start |-> pos, end |-> pos + Len(p)]>> \o FindIter(c, p, pos + Len(p))
  ELSE FindIter(c, p, pos + 1)

\* "\n".join(lines)
RECURSIVE Join(_)
Join(lines) ==
  IF lines = <<>> THEN <<>>
  ELSE IF Len(lines) = 1 THEN lines[1]
  ELSE lines[1] \o <<NL>> \o Join(Tail(lines))

\* lines[a:b] of Python on a list.
SliceList(l, a, b) == Slice(l, a, b)

\* GrepMatch with the lower bound of the window taken like the upper one.
GrepMatch_Symmetric(self, m, context_lines) ==
  LET c == self.content.v
      lines == self.content_lines.v
      line_num == CharToLine(c, m.start)
      context_start == Max(0, line_num - context_lines)
      context_end == Min(Len(lines), line_num + context_lines)
  IN [match |-> Slice(c, m.start, m.end),
      start |-> m.start,
      end |-> m.end,
      line |-> line_num,
      context |-> Join(SliceList(lines, context_start, context_end)),
      contextLineStart |-> context_start + 1,
      contextLineEnd |-> context_end]

\* The dict appended to matches for one match of grep's loop.
GrepMatch(self, m, context_lines) ==
  LET c == self.content.v
      lines == self.content_lines.v
      line_num == CharToLine(c, m.start)
      context_start == Max(0, line_num - context_lines - 1)
      context_end == Min(Len(lines), line_num + context_lines)
  IN [match |-> Slice(c, m.start, m.end),
      start |-> m.start,
      end |-> m.end,
      line |-> line_num,
      context |-> Join(SliceList(lines, context_start, context_end)),
      contextLineStart |-> context_start + 1,
      contextLineEnd |-> context_end]

\* GrepLoop breaking one match late: len(matches) > max_matches.
RECURSIVE GrepLoop_Late(_, _, _, _, _)
GrepLoop_Late(self, found, max_matches, context_lines, matches) ==
  IF found = <<>> \/ Len(matches) > max_matches THEN matches
  ELSE GrepLoop_Late(self, Tail(found), max_matches, context_lines,
                     Append(matches, GrepMatch(self, Head(found), context_lines)))

\* The loop over finditer: it breaks once len(matches) >= max_matches.
RECURSIVE GrepLoop(_, _, _, _, _)
GrepLoop(self, found, max_matches, context_lines, matches) ==
  IF found = <<>> \/ Len(matches) >= max_matches THEN matches
  ELSE GrepLoop(self, Tail(found), max_matches, context_lines,
                Append(matches, GrepMatch(self, Head(found), context_lines)))

\* re.compile fails (re.error) on this pattern; every other pattern of the model
\* is literal text.
InvalidPattern == <<"(">>

\* method_grep
method_grep(self, params) ==
  IF ~self.initialized THEN Raise(self, NotInitializedMsg)
  ELSE IF ~params.isMap THEN Raise(self, NoGetMsg)
  ELSE
    LET pattern == Get(params, "pattern", JNull)
        max_matches == Get(params, "maxMatches", JInt(10)).i
        context_lines == Get(params, "contextLines", JInt(2)).i
    IN IF ~Truthy(pattern) THEN Raise(self, <<"pattern is required">>)
       ELSE IF pattern.t = InvalidPattern
       THEN Raise(self, <<"Invalid regex pattern: ",
                          "missing ), unterminated subpattern at position 0">>)
       ELSE
         LET matches == GrepLoop(self, FindIter(self.content.v, pattern.t, 0),
                                 max_matches, context_lines, <<>>)
         IN Return(self,
              [pattern |-> pattern.t,
               matchCount |-> Len(matches),
               matches |-> matches,
               truncated |-> Len(matches) >= max_matches])

\* --------------------------------------------------------------- chunk access
\* {k: v for k, v in chunk.items() if k != "content"}
ChunkMeta(chunk) ==
  [key \in (DOMAIN chunk) \ {"content"} |-> chunk[key]]

\* method_get_chunks
method_get_chunks(self, params) ==
  IF ~self.initialized THEN Raise(self, NotInitializedMsg)
  ELSE IF ~params.isMap THEN Raise(self, NoGetMsg)
  ELSE
    IF Truthy(Get(params, "includeContent", JBool(FALSE)))
    THEN Return(self, [chunkCount |-> Len(self.chunks), chunks |-> self.chunks])
    ELSE Return(self,
           [chunkCount |-> Len(self.chunks),
            chunks |-> [i \in 1..Len(self.chunks) |-> ChunkMeta(self.chunks[i])]])

\* method_get_chunk
method_get_chunk(self, params) ==
  IF ~self.initialized THEN Raise(self, NotInitializedMsg)
  ELSE IF ~params.isMap THEN Raise(self, NoGetMsg)
  ELSE
    LET index == Get(params, "index", JNull)
    IN IF index.k = "null" THEN Raise(self, <<"index is required">>)
       ELSE IF index.i < 0 \/ index.i >= Len(self.chunks)
       THEN Raise(self, <<"Chunk index out of range: ", ToString(index.i)>>)
       ELSE Return(self, [chunk |-> self.chunks[index.i + 1]])

\* ------------------------------------------------------------------ buffers
\* _add_buffer: the entry's index is len(self.buffers) before the append.
add_buffer(self, content, label, now) ==
  LET buffer_entry == [index |-> Len(self.buffers),
                       content |-> content,
                       label |-> label,
                       createdAt |-> now]
      s1 == [self EXCEPT !.buffers = Append(self.buffers, buffer_entry)]
  IN Return(s1, [bufferIndex |-> buffer_entry.index,
                 bufferCount |-> Len(s1.buffers)])

\* method_add_buffer
method_add_buffer(self, params, now) ==
  IF ~self.initialized THEN Raise(self, NotInitializedMsg)
  ELSE IF ~params.isMap THEN Raise(self, NoGetMsg)
  ELSE
    LET content == Get(params, "content", JNull)
        label == Get(params, "label", JNull)
    IN IF content.k = "null" THEN Raise(self, <<"content is required">>)
       ELSE add_buffer(self, content.t,
                       IF label.k = "null" THEN None ELSE Some(label.t), now)

\* method_get_buffers
method_get_buffers(self, params) ==
  IF ~self.initialized THEN Raise(self, NotInitializedMsg)
  ELSE Return(self, [bufferCount |-> Len(self.buffers), buffers |-> self.buffers])

\* method_shutdown
method_shutdown(self, params) == Return(self, [status |-> "shutting_down"])

\* -------------------------------------------------------------------- query
\* \w of the regular expression, on the characters of the model.
IsWordChar(ch) == ch \in {"a", "A", "b", "B"}

\* re.findall(r'\b\w+\b', query): the maximal runs of word characters, in order.
RECURSIVE WordsFrom(_, _, _)
WordsFrom(q, i, cur) ==
  IF i > Len(q) THEN (IF cur = <<>> THEN <<>> ELSE <<cur>>)
  ELSE IF IsWordChar(q[i]) THEN WordsFrom(q, i + 1, Append(cur, q[i]))
  ELSE (IF cur = <<>> THEN <<>> ELSE <<cur>>) \o WordsFrom(q, i + 1, <<>>)

\* [w.lower() for w in re.findall(...) if len(w) > 3]
Keywords(query) ==
  LET ws == WordsFrom(query, 1, <<>>)
      long == SelectSeq(ws, LAMBDA w : Len(w) > 3)
  IN [i \in 1..Len(long) |-> LowerStr(long[i])]

\* kw in chunk_lower
Contains(text, kw) == \E i \in 0..Len(text) : MatchAt(text, kw, i)

\* sum(1 for kw in keywords if kw in chunk_lower)
Score(keywords, chunk) ==
  LET chunk_lower == LowerStr(chunk.content)
  IN Cardinality({i \in 1..Len(keywords) : Contains(chunk_lower, keywords[i])})

\* chunk["content"][:200] + "..." if len(chunk["content"]) > 200 else chunk["content"]
Preview(text) ==
  IF Len(text) > 200 THEN Slice(text, 0, 200) \o <<".", ".", ".">> ELSE text

\* The entries appended to relevant_chunks, in chunk order: those with score > 0.
RECURSIVE Relevant(_, _, _)
Relevant(keywords, chunks, i) ==
  IF i > Len(chunks) THEN <<>>
  ELSE LET score == Score(keywords, chunks[i])
       IN (IF score > 0
           THEN <<[chunkIndex |-> chunks[i].index,
                   score |-> score,
                   preview |-> Preview(chunks[i].content)]>>
           ELSE <<>>) \o Relevant(keywords, chunks, i + 1)

\* SortByScore turning equal scores around, as sorting ascending and reversing
\* would.
RECURSIVE SortByScore_Reversed(_)
SortByScore_Reversed(l) ==
  IF l = <<>> THEN <<>>
  ELSE LET rest == SortByScore_Reversed(Tail(l))
           h == Head(l)
           before == SelectSeq(rest, LAMBDA x : x.score >= h.score)
           after == SelectSeq(rest, LAMBDA x : x.score < h.score)
       IN before \o <<h>> \o after

\* list.sort(key=score, reverse=True): stable, so equal scores keep their order.
RECURSIVE SortByScore(_)
SortByScore(l) ==
  IF l = <<>> THEN <<>>
  ELSE LET rest == SortByScore(Tail(l))
           h == Head(l)
           before == SelectSeq(rest, LAMBDA x : x.score > h.score)
           after == SelectSeq(rest, LAMBDA x : x.score <= h.score)
       IN before \o <<h>> \o after

\* method_query
method_query(self, params) ==
  IF ~self.initialized THEN Raise(self, NotInitializedMsg)
  ELSE IF ~params.isMap THEN Raise(self, NoGetMsg)
  ELSE
    LET query == Get(params, "query", JNull)
    IN IF ~Truthy(query) THEN Raise(self, <<"query is required">>)
       ELSE
         LET keywords == Keywords(query.t)
             relevant_chunks == SortByScore(Relevant(keywords, self.chunks, 1))
         IN Return(self,
              [query |-> query.t,
               keywords |-> keywords,
               relevantChunks |-> Slice(relevant_chunks, 0, 5),
               totalChunks |-> Len(self.chunks),
               note |-> "Full LLM integration pending - this returns keyword-matched chunks"])

\* --------------------------------------------------------------------- eval
\* The code texts the model sends to eval.  The context hands the code the
\* session's own lists (lines, chunks, buffers) and _add_buffer.
EvalCodes ==
  {"1", "peek", "add_buffer('')", "buffers.clear()", "del chunks[0]", "assert 0",
   "peek.__closure__[0].cell_contents.__init__()"}

\* method_eval: eval(code) as an expression, exec(code) on SyntaxError.
method_eval(self, params, now) ==
  IF ~self.initialized THEN Raise(self, NotInitializedMsg)
  ELSE IF ~params.isMap THEN Raise(self, NoGetMsg)
  ELSE
    LET code == Get(params, "code", JNull)
    IN CASE ~Truthy(code) -> Raise(self, <<"code is required">>)
         [] code.s = "1" -> Return(self, [result |-> 1, type |-> "int"])
         [] code.s = "peek" ->
              \* the lambda itself: a value json.dumps cannot encode
              [Return(self, [result |-> "<function>", type |-> "function"])
                 EXCEPT !.dumps = FALSE]
         [] code.s = "add_buffer('')" ->
              LET r == add_buffer(self, <<>>, None, now)
              IN Return(r.repl, [result |-> r.value, type |-> "dict"])
         [] code.s = "buffers.clear()" ->
              Return([self EXCEPT !.buffers = <<>>],
                     [result |-> None, type |-> "NoneType"])
         [] code.s = "del chunks[0]" ->
              \* a statement: SyntaxError from eval, then exec
              IF self.chunks = <<>>
              THEN Raise(self, <<"list assignment index out of range">>)
              ELSE Return([self EXCEPT !.chunks = Tail(self.chunks)],
                          [result |-> None, type |-> "None"])
         [] code.s = "peek.__closure__[0].cell_contents.__init__()" ->
              \* the lambda of the context closes over self: this calls
              \* RlmRepl.__init__ on the session, and evaluates to None
              Return(NewRepl, [result |-> None, type |-> "NoneType"])
         [] code.s = "assert 0" ->
              \* exec raises AssertionError(), whose str is empty
              Raise(self, <<>>)

\* --------------------------------------------------------------- dispatcher
\* The attributes method_<name> of RlmRepl.
MethodNames ==
  {"init", "peek", "grep", "get_chunks", "get_chunk", "eval", "add_buffer",
   "get_buffers", "query", "shutdown"}

NoError == [code |-> 0, message |-> <<>>]

\* _result: the keys of the response are jsonrpc, id and result.
result(req_id, value) ==
  [keys |-> {"jsonrpc", "id", "result"}, id |-> req_id, result |-> value,
   error |-> NoError]

\* _error: the keys of the response are jsonrpc, id and error.
error(req_id, code, message) ==
  [keys |-> {"jsonrpc", "id", "error"}, id |-> req_id, result |-> <<>>,
   error |-> [code |-> code, message |-> message]]

\* handler(params), for the handler getattr found.
CallHandler(self, method, params, rd, now) ==
  CASE method = "init" -> method_init(self, params, rd, now)
    [] method = "peek" -> method_peek(self, params)
    [] method = "grep" -> method_grep(self, params)
    [] method = "get_chunks" -> method_get_chunks(self, params)
    [] method = "get_chunk" -> method_get_chunk(self, params)
    [] method = "eval" -> method_eval(self, params, now)
    [] method = "add_buffer" -> method_add_buffer(self, params, now)
    [] method = "get_buffers" -> method_get_buffers(self, params)
    [] method = "query" -> method_query(self, params)
    [] method = "shutdown" -> method_shutdown(self, params)

\* The code of the error built from an exception the handler raised.
HandlerErrorCode(msg) == ERROR_INTERNAL

\* request.get("id"): None when the request has no id.
RequestId(request) == IF request.id.k = "absent" THEN JNull ELSE request.id

\* The response to a request whose handler did h: _result of what it returned,
\* or _error of the exception it raised.
Respond(req_id, h) ==
  IF h.ok
  THEN [resp |-> result(req_id, h.value), repl |-> h.repl, dumps |-> h.dumps]
  ELSE [resp |-> error(req_id, HandlerErrorCode(h.msg), h.msg),
        repl |-> h.repl, dumps |-> TRUE]

\* handle_request, on a request that is a JSON object.
handle_request(self, request, rd, now) ==
  LET req_id == RequestId(request)
      method == request.method
  IN IF ~Truthy(method)
     THEN [resp |-> error(req_id, ERROR_INVALID_REQUEST, <<"Missing method">>),
           repl |-> self, dumps |-> TRUE]
     ELSE IF method.s \notin MethodNames
     THEN [resp |-> error(req_id, ERROR_METHOD_NOT_FOUND,
                          <<"Unknown method: ", method.s>>),
           repl |-> self, dumps |-> TRUE]
     ELSE Respond(req_id, CallHandler(self, method.s, request.params, rd, now))

\* ------------------------------------------------------------- input lines
\* A line of standard input after strip(): empty, text json.loads rejects with
\* JSONDecodeError, text it gives up on with RecursionError (brackets nested
\* deeper than the interpreter's recursion limit, closed or not), a JSON value
\* that is no object (an array, a number, a string), or an object.
Line(kind, id, method, params) ==
  [kind |-> kind, id |-> id, method |-> method, params |-> params]

NoLine == Line("none", Absent, Absent, Map(EmptyMap))
BlankLine == Line("blank", Absent, Absent, Map(EmptyMap))
GarbageLine == Line("garbage", Absent, Absent, Map(EmptyMap))
NonObjectLine == Line("nonobject", Absent, Absent, Map(EmptyMap))
DeepLine == Line("deep", Absent, Absent, Map(EmptyMap))
Req(id, method, params) == Line("object", id, method, params)

\* The response main builds itself on json.JSONDecodeError.
ParseErrorResponse == error(JNull, ERROR_PARSE, <<"Parse error: ", "Expecting value">>)

\* What the environment hands to one iteration: the file read, the clock.
NoRead == [called |-> FALSE, st |-> "none", data |-> <<>>]
ReadOk(c) == [called |-> TRUE, st |-> "ok", data |-> c]
ReadNotFound == [called |-> TRUE, st |-> "notfound", data |-> <<>>]
ReadError == [called |-> TRUE, st |-> "error", data |-> <<>>]

NoOut == [written |-> FALSE, resp |-> error(JNull, 0, <<>>)]
Written(resp) == [written |-> TRUE, resp |-> resp]

\* -------------------------------------------------------------------- state
VARIABLES
  repl,   \* the RlmRepl object of main
  pc,     \* main: "read" (at the for statement, about to read a line), "loop" (an
          \* iteration is over), "stopped" (break after shutdown), "eof" (input
          \* exhausted), "crashed" (uncaught exception)
  line,   \* the last line read
  io,     \* what open(...).read() did while that line was handled
  out,    \* what was printed for that line
  prev,   \* the RlmRepl object as it was when that line was read
  adds,   \* add_buffer requests answered with a result since the last init
          \* answered with a result
  seen    \* in the runs that watch inits: an earlier init answered with a
          \* result, as what it read, its chunk sizes and the chunks it made

vars == <<repl, pc, line, io, out, prev, adds, seen>>

\* seen in the runs that do not watch inits, in those that do before any init
\* was picked, and once an init that read rd and left session self was picked.
NotWatching == [on |-> FALSE]
NoneSeen == [on |-> TRUE, set |-> FALSE]
Seen(rd, self) ==
  [on |-> TRUE, set |-> TRUE, data |-> rd.data, chunk_size |-> self.chunk_size,
   chunk_overlap |-> self.chunk_overlap, chunks |-> self.chunks]

Init ==
  /\ repl = NewRepl
  /\ pc = "read"
  /\ line = NoLine
  /\ io = NoRead
  /\ out = NoOut
  /\ prev = NewRepl
  /\ adds = 0
  /\ seen = NotWatching

\* Whether handling request l reaches open(): init with a documentPath, on a map.
Opens(l) ==
  /\ l.kind = "object"
  /\ l.method.k = "name" /\ l.method.s = "init"
  /\ l.params.isMap
  /\ Truthy(Get(l.params, "documentPath", JNull))

\* The break of main: request.get("method") == "shutdown".
IsShutdown(l) == l.method.k = "name" /\ l.method.s = "shutdown"

\* The count of add_buffer results since the last init result.
NextAdds(l, resp) ==
  IF "result" \in resp.keys /\ l.method.k = "name"
  THEN (IF l.method.s = "init" THEN 0
        ELSE IF l.method.s = "add_buffer" THEN adds + 1 ELSE adds)
  ELSE adds

\* What seen may be after request l was handled as h: in a run that watches
\* inits, an init answered with a result may be picked in place of the last.
SeenNext(l, rd, h) ==
  IF seen.on /\ l.method.k = "name" /\ l.method.s = "init" /\ "result" \in h.resp.keys
  THEN {seen, Seen(rd, h.repl)}
  ELSE {seen}

\* One iteration of main's loop on line l, with rd the file read and now the clock.
Step(l, rd, now) ==
  /\ pc = "read"
  /\ line' = l
  /\ prev' = repl
  /\ io' = IF Opens(l) THEN rd ELSE NoRead
  /\ CASE l.kind = "blank" ->
            \* continue
            /\ out' = NoOut
            /\ pc' = "loop"
            /\ UNCHANGED <<repl, adds, seen>>
       [] l.kind = "garbage" ->
            /\ out' = Written(ParseErrorResponse)
            /\ pc' = "loop"
            /\ UNCHANGED <<repl, adds, seen>>
       [] l.kind = "deep" ->
            \* RecursionError is no JSONDecodeError: nothing catches it
            /\ out' = NoOut
            /\ pc' = "crashed"
            /\ UNCHANGED <<repl, adds, seen>>
       [] l.kind = "nonobject" ->
            \* request.get raises AttributeError outside handle_request's try
            /\ out' = NoOut
            /\ pc' = "crashed"
            /\ UNCHANGED <<repl, adds, seen>>
       [] l.kind = "object" ->
            \E h \in {handle_request(repl, l, rd, now)} :
               /\ repl' = h.repl
               /\ seen' \in SeenNext(l, rd, h)
               /\ IF h.dumps
                  THEN /\ out' = Written(h.resp)
                       /\ pc' = IF IsShutdown(l) THEN "stopped" ELSE "loop"
                       /\ adds' = NextAdds(l, h.resp)
                  ELSE \* json.dumps raises TypeError
                       /\ out' = NoOut
                       /\ pc' = "crashed"
                       /\ adds' = adds

\* ------------------------------------------------------------------ inputs
Chars == {"a", NL}

\* Every text over Chars of at most n characters.
RECURSIVE Texts(_)
Texts(n) ==
  IF n = 0 THEN {<<>>}
  ELSE LET shorter == Texts(n - 1)
       IN shorter \cup {Append(t, ch) : t \in {u \in shorter : Len(u) = n - 1},
                                        ch \in Chars}

Contents == Texts(MaxLen)

\* The reading of datetime.utcnow().
Times == {"T1"}

\* What open(path).read() can do.
Reads == {ReadNotFound, ReadError} \cup {ReadOk(c) : c \in Contents}

\* A request's id: absent, or a value.
Ids == {Absent, JInt(7)}
AnId == JInt(7)

\* A params map of the given keys; a key whose value is Absent is left out.
KV(key, v) == IF v.k = "absent" THEN EmptyMap ELSE key :> v
With1(k1, v1) == Map(KV(k1, v1))
With2(k1, v1, k2, v2) == Map(KV(k1, v1) @@ KV(k2, v2))
With3(k1, v1, k2, v2, k3, v3) == Map(KV(k1, v1) @@ KV(k2, v2) @@ KV(k3, v3))

\* <<chunkSize, chunkOverlap>> as the requests of the model carry them: both
\* absent, a null chunkSize, or integers chunkSize > chunkOverlap >= 0 (for
\* chunkSize <= chunkOverlap _compute_chunks does not return).
ChunkArgs ==
  {<<Absent, Absent>>, <<JNull, Absent>>, <<JInt(1), JInt(0)>>,
   <<JInt(2), JInt(1)>>}

InitParams ==
  {With1("documentPath", d) : d \in {Absent, JName("")}}
  \cup {With3("documentPath", JName("p"), "chunkSize", a[1], "chunkOverlap", a[2]) :
          a \in ChunkArgs}

PeekParams ==
  {With2("start", a[1], "end", a[2]) :
     a \in {<<Absent, Absent>>, <<JInt(1), JInt(1)>>, <<JInt(-1), JInt(MaxLen + 1)>>,
            <<JInt(1), Absent>>}}

GrepParams ==
  {With1("pattern", p) : p \in {Absent, JStr(<<"a">>), JStr(InvalidPattern)}}

GetChunksParams ==
  {With1("includeContent", b) : b \in {Absent, JBool(TRUE)}}

GetChunkParams ==
  {With1("index", i) : i \in {Absent, JInt(-1), JInt(0), JInt(1)}}

AddBufferParams ==
  {With2("content", Absent, "label", Absent),
   With2("content", JStr(<<>>), "label", Absent),
   With2("content", JStr(<<"x">>), "label", JStr(<<"l">>))}

QueryParams ==
  {With1("query", q) : q \in {Absent, JStr(<<"a", "a", "a", "a">>)}}

EvalParams ==
  {With1("code", c) :
     c \in {Absent} \cup {JName(t) : t \in EvalCodes \ {"del chunks[0]"}}}

\* ------------------------------------------------------------------ actions
\* The environment's part of one iteration on request l: the file read matters
\* only when open() is reached, the clock only when a timestamp is taken.
Handle(l) ==
  \E rd \in (IF Opens(l) THEN Reads ELSE {NoRead}) :
    \E now \in Times :
      Step(l, rd, now)

\* The session is driven to at most MaxBuffers buffers, and to at most
\* MaxBuffers + 1 add_buffer results per init.
RoomForBuffer == Len(repl.buffers) < MaxBuffers /\ adds <= MaxBuffers

ReadBlank == Step(BlankLine, NoRead, "T1")

ReadGarbage == Step(GarbageLine, NoRead, "T1")

ReadNonObject == Step(NonObjectLine, NoRead, "T1")

ReadDeep == Step(DeepLine, NoRead, "T1")

RequestNoMethod ==
  \E id \in Ids, m \in {Absent, JName("")} : Handle(Req(id, m, Map(EmptyMap)))

RequestUnknown == \E id \in Ids : Handle(Req(id, JName("foo"), Map(EmptyMap)))

\* A request whose "params" is no map, for a handler that reads params first,
\* after _require_init, or never.
RequestNotAMap ==
  \E m \in {"init", "peek", "add_buffer", "get_buffers", "shutdown"} :
    Handle(Req(AnId, JName(m), NotAMap))

RequestInit == \E p \in InitParams : Handle(Req(AnId, JName("init"), p))

RequestPeek == \E p \in PeekParams : Handle(Req(AnId, JName("peek"), p))

RequestGrep == \E p \in GrepParams : Handle(Req(AnId, JName("grep"), p))

RequestGetChunks ==
  \E p \in GetChunksParams : Handle(Req(AnId, JName("get_chunks"), p))

RequestGetChunk ==
  \E p \in GetChunkParams : Handle(Req(AnId, JName("get_chunk"), p))

RequestAddBuffer ==
  /\ RoomForBuffer
  /\ \E p \in AddBufferParams : Handle(Req(AnId, JName("add_buffer"), p))

RequestGetBuffers ==
  \E id \in Ids : Handle(Req(id, JName("get_buffers"), Map(EmptyMap)))

RequestQuery == \E p \in QueryParams : Handle(Req(AnId, JName("query"), p))

RequestEval ==
  \E p \in EvalParams :
    /\ (p = With1("code", JName("add_buffer('')")) => RoomForBuffer)
    /\ Handle(Req(AnId, JName("eval"), p))

RequestShutdown ==
  \E id \in Ids : Handle(Req(id, JName("shutdown"), Map(EmptyMap)))

\* The end of an iteration (after print, or continue): back to the for statement.
NextLine ==
  /\ pc = "loop"
  /\ pc' = "read"
  /\ line' = NoLine
  /\ io' = NoRead
  /\ out' = NoOut
  /\ prev' = repl
  /\ UNCHANGED <<repl, adds, seen>>

\* for line in sys.stdin: ends when the input does.
EndOfInput ==
  /\ pc = "read"
  /\ pc' = "eof"
  /\ UNCHANGED <<repl, line, io, out, prev, adds, seen>>

Next ==
  \/ ReadBlank
  \/ ReadGarbage
  \/ ReadNonObject
  \/ ReadDeep
  \/ RequestNoMethod
  \/ RequestUnknown
  \/ RequestNotAMap
  \/ RequestInit
  \/ RequestPeek
  \/ RequestGrep
  \/ RequestGetChunks
  \/ RequestGetChunk
  \/ RequestAddBuffer
  \/ RequestGetBuffers
  \/ RequestQuery
  \/ RequestEval
  \/ RequestShutdown
  \/ NextLine
  \/ EndOfInput

Spec == Init /\ [][Next]_vars

\* ------------------------------------------- one document, many chunkings
\* The first request of a run: an init that reads any document of at most
\* MaxDocLen characters, with any integers chunkSize > chunkOverlap >= 0 up to
\* MaxChunkSize.
RequestInitChunked ==
  /\ line = NoLine
  /\ ~repl.initialized
  /\ \E c \in Texts(MaxDocLen), cs \in 1..MaxChunkSize, co \in 0..(MaxChunkSize - 1) :
       /\ cs > co
       /\ Step(Req(AnId, JName("init"),
                   With3("documentPath", JName("p"), "chunkSize", JInt(cs),
                         "chunkOverlap", JInt(co))),
               ReadOk(c), "T1")

NextChunks == RequestInitChunked

SpecChunks == Init /\ [][NextChunks]_vars

\* ------------------------------------------------- one document, searched
\* The document of the example: "ab\nab\nab".
ExampleDoc == <<"a", "b", NL, "a", "b", NL, "a", "b">>

GrepDocs == Texts(MaxGrepLen) \cup {ExampleDoc}

\* Patterns that are literal text.
GrepPatterns == {<<"a">>, <<"a", "a">>, <<"A", "b">>}

\* The first request of a run: an init, with the default chunking, that reads
\* a document of GrepDocs.
RequestInitGrepDoc ==
  /\ line = NoLine
  /\ ~repl.initialized
  /\ \E c \in GrepDocs :
       Step(Req(AnId, JName("init"), With1("documentPath", JName("p"))),
            ReadOk(c), "T1")

\* A grep of the document, with any integer maxMatches from -1 to MaxCap and any
\* contextLines up to MaxContext, or without them.
RequestGrepDoc ==
  /\ repl.initialized
  /\ \E pat \in GrepPatterns,
        mm \in {Absent} \cup {JInt(n) : n \in (-1)..MaxCap},
        cl \in {Absent} \cup {JInt(n) : n \in 0..MaxContext} :
       Step(Req(AnId, JName("grep"),
                With3("pattern", JStr(pat), "maxMatches", mm, "contextLines", cl)),
            NoRead, "T1")

NextGrep ==
  \/ RequestInitGrepDoc
  \/ RequestGrepDoc
  \/ NextLine

SpecGrep == Init /\ [][NextGrep]_vars

\* ------------------------------------------------ documents loaded again
\* A run that watches its inits.
InitReload ==
  /\ repl = NewRepl
  /\ pc = "read"
  /\ line = NoLine
  /\ io = NoRead
  /\ out = NoOut
  /\ prev = NewRepl
  /\ adds = 0
  /\ seen = NoneSeen

\* The documents of these runs: empty, one line, two lines.
ReloadDocs == {<<>>, <<"a", "a">>, <<"a", NL, "a">>}

\* An init of one of these documents with any of ChunkArgs, or of a file that
\* does not exist.
RequestInitReload ==
  \E a \in ChunkArgs :
    \E rd \in {ReadNotFound} \cup {ReadOk(c) : c \in ReloadDocs} :
      Step(Req(AnId, JName("init"),
               With3("documentPath", JName("p"), "chunkSize", a[1],
                     "chunkOverlap", a[2])),
           rd, "T1")

\* eval of a statement that removes the first chunk from the session's list.
RequestEvalDelChunk ==
  Handle(Req(AnId, JName("eval"), With1("code", JName("del chunks[0]"))))

\* An add_buffer with a content, the first since the last init that succeeded.
RequestAddBufferText ==
  /\ repl.buffers = <<>>
  /\ adds = 0
  /\ Handle(Req(AnId, JName("add_buffer"), With1("content", JStr(<<"x">>))))

NextReload ==
  \/ RequestInitReload
  \/ RequestAddBufferText
  \/ RequestEvalDelChunk
  \/ RequestGetChunks
  \/ RequestGetChunk
  \/ NextLine

SpecReload == InitReload /\ [][NextReload]_vars

\* -------------------------------------------------- one document, queried
\* Chunk-sized pieces of text: one holding "aaab" and "aabb" once each, one
\* holding "aaab" twice and no "aabb", one holding neither.
BlockSize == 8
Blocks == {<<"a", "a", "a", "b", "a", "a", "b", "b">>,
           <<"a", "a", "a", "b", "a", "a", "a", "b">>,
           <<"a", "b", "a", "b", "a", "b", "a", "b">>}

\* The documents made of at most n blocks.
RECURSIVE BlockDocs(_)
BlockDocs(n) ==
  IF n = 0 THEN {<<>>}
  ELSE LET shorter == BlockDocs(n - 1)
       IN shorter \cup {t \o b : t \in {u \in shorter : Len(u) = (n - 1) * BlockSize},
                                 b \in Blocks}

\* Queries: two keywords, one in capitals, one beside a word too short to be a
\* keyword, the same keyword twice.
DocQueries ==
  {<<"a", "a", "a", "b", " ", "a", "a", "b", "b">>,
   <<"A", "A", "A", "b">>,
   <<"a", "a", "b", " ", "a", "a", "b", "b">>,
   <<"a", "a", "a", "b", " ", "a", "a", "a", "b">>}

\* The first request of a run: an init that reads a document of blocks and cuts
\* it into chunks of one block each.
RequestInitBlocks ==
  /\ line = NoLine
  /\ ~repl.initialized
  /\ \E c \in BlockDocs(MaxBlocks) :
       Step(Req(AnId, JName("init"),
                With3("documentPath", JName("p"), "chunkSize", JInt(BlockSize),
                      "chunkOverlap", JInt(0))),
            ReadOk(c), "T1")

RequestQueryDoc ==
  /\ repl.initialized
  /\ \E q \in DocQueries :
       Step(Req(AnId, JName("query"), With1("query", JStr(q))), NoRead, "T1")

NextQuery ==
  \/ RequestInitBlocks
  \/ RequestQueryDoc
  \/ NextLine

SpecQuery == Init /\ [][NextQuery]_vars

\* ------------------------------------------------------- reading the state
\* A line has been read and its iteration is over.
Handled == line.kind # "none"

\* The last line was a request object naming method m.
IsCall(m) == line.kind = "object" /\ line.method.k = "name" /\ line.method.s = m

\* The response printed for the last line.
GotResult == out.written /\ "result" \in out.resp.keys
GotError == out.written /\ "error" \in out.resp.keys
GotErrorCode(code) == GotError /\ out.resp.error.code = code

\* s is an initial segment of t.
IsPrefix(s, t) == Len(s) <= Len(t) /\ \A i \in 1..Len(s) : s[i] = t[i]

\* The methods that call _require_init.
NeedInit ==
  {"peek", "grep", "get_chunks", "get_chunk", "add_buffer", "get_buffers",
   "query", "eval"}

\* ------------------------------------------------------------------- claims

\* C1: every non-blank line read gets exactly one response line before the next
\* line is read, and no line's content ends the read loop: after a line other
\* than a shutdown request the loop is back at the for statement.
C1_OneResponsePerLine ==
  (Handled /\ line.kind # "blank") =>
    /\ out.written
    /\ pc = "stopped" => IsCall("shutdown")
    /\ pc \in {"loop", "stopped"}

\* C2: on a session where no init has succeeded, a request for any method that
\* needs an initialized session gets an error with code NOT_INITIALIZED and no
\* result, and the session is unchanged.
C2_NotInitializedCode ==
  (~prev.initialized /\ \E m \in NeedInit : IsCall(m)) =>
    /\ GotErrorCode(ERROR_NOT_INITIALIZED)
    /\ ~GotResult
    /\ repl = prev

\* C3: an init whose path does not resolve gets FILE_NOT_FOUND, any other read
\* failure gets INTERNAL, and a session that was not initialized stays so.
C3_FileNotFoundCode ==
  (IsCall("init") /\ io.called /\ io.st # "ok") =>
    /\ io.st = "notfound" => GotErrorCode(ERROR_FILE_NOT_FOUND)
    /\ io.st = "error" => GotErrorCode(ERROR_INTERNAL)
    /\ ~prev.initialized => ~repl.initialized

\* C4: the response to a request object carries the request's id and exactly one
\* of result and error: INVALID_REQUEST for a missing or empty method,
\* METHOD_NOT_FOUND for a method that is not defined, and an error raised by a
\* handler has a non-empty message.
C4_Envelope ==
  (line.kind = "object" /\ out.written) =>
    /\ out.resp.id = RequestId(line)
    /\ GotResult # GotError
    /\ ~Truthy(line.method) => GotErrorCode(ERROR_INVALID_REQUEST)
    /\ (Truthy(line.method) /\ line.method.s \notin MethodNames)
         => GotErrorCode(ERROR_METHOD_NOT_FOUND)
    /\ GotError => out.resp.error.message # <<>>

\* C5: a shutdown request gets a result in every session state and ends the
\* loop: nothing is read after it; every other line is answered and leaves the
\* loop reading.
C5_ShutdownEndsLoop ==
  /\ IsCall("shutdown") => (GotResult /\ pc = "stopped")
  /\ pc = "stopped" => (IsCall("shutdown") /\ ~ENABLED Next)
  /\ (Handled /\ line.kind # "blank" /\ ~IsCall("shutdown"))
       => (out.written /\ pc = "loop")

\* C5, the part about shutdown alone: it is acknowledged with a result from any
\* session state, and no line is read after it.
C5_ShutdownAcknowledged ==
  /\ IsCall("shutdown") => (GotResult /\ pc = "stopped")
  /\ pc = "stopped" => (IsCall("shutdown") /\ ~ENABLED Next)

\* C7: the buffers are append-only within a session: unless the request was an
\* init that succeeded, the buffers held before it are still there, unchanged
\* and in the same order.
C7_AppendOnly ==
  (Handled /\ ~(IsCall("init") /\ GotResult)) =>
    IsPrefix(prev.buffers, repl.buffers)

\* C8: the k-th add_buffer answered with a result since the last init answered
\* with a result returns bufferIndex k-1 and bufferCount k, buffer i has index
\* i, and an add_buffer without content fails and adds nothing.
C8_DenseIndices ==
  /\ \A i \in 1..Len(repl.buffers) : repl.buffers[i].index = i - 1
  /\ (IsCall("add_buffer") /\ GotResult) =>
       /\ out.resp.result.bufferIndex = adds - 1
       /\ out.resp.result.bufferCount = adds
  /\ (IsCall("add_buffer") /\ "content" \notin DOMAIN line.params.m) =>
       (GotError /\ repl = prev)

\* C10: peek on an initialized session clamps start and end, fails with
\* INVALID_RANGE when start >= end, and otherwise returns content[start:end]
\* with its length and the lines of start and end - 1.
C10_Peek ==
  (prev.initialized /\ IsCall("peek") /\ line.params.isMap) =>
    LET c == prev.content.v
        start == Max(0, Get(line.params, "start", JInt(0)).i)
        end == Min(Len(c), Get(line.params, "end", JInt(Len(c))).i)
    IN IF start >= end
       THEN GotErrorCode(ERROR_INVALID_RANGE) /\ ~GotResult
       ELSE /\ GotResult
            /\ out.resp.result.content = SubSeq(c, start + 1, end)
            /\ out.resp.result.start = start
            /\ out.resp.result.end = end
            /\ out.resp.result.length = end - start
            /\ out.resp.result.lineStart = CountNL(SubSeq(c, 1, start)) + 1
            /\ out.resp.result.lineEnd = CountNL(SubSeq(c, 1, end - 1)) + 1
            /\ out.resp.result.lineStart <= out.resp.result.lineEnd

\* C6: after an init that succeeded with chunkSize > chunkOverlap >= 0, the
\* chunks cover [0, len(content)) without gaps: none for an empty document;
\* otherwise the first starts at 0, each next one starts at or before the end of
\* the one before it and not before its start, the last ends at len(content),
\* and every offset lies in some chunk.
C6_ChunksCover ==
  (IsCall("init") /\ GotResult
     /\ line.params.m["chunkSize"].i > line.params.m["chunkOverlap"].i
     /\ line.params.m["chunkOverlap"].i >= 0) =>
    LET c == repl.content.v
        ch == repl.chunks
    IN IF c = <<>> THEN ch = <<>>
       ELSE /\ ch # <<>>
            /\ ch[1].start = 0
            /\ \A i \in 1..(Len(ch) - 1) :
                 /\ ch[i + 1].start <= ch[i].end
                 /\ ch[i].start <= ch[i + 1].start
            /\ ch[Len(ch)].end = Len(c)
            /\ \A pos \in 0..(Len(c) - 1) :
                 \E i \in 1..Len(ch) : ch[i].start <= pos /\ pos < ch[i].end

\* C6, witness: an init whose last chunk was extended over a tiny tail, so that
\* it is longer than chunkSize.
C6_Witness ==
  /\ IsCall("init") /\ GotResult
  /\ repl.chunks # <<>>
  /\ repl.chunks[Len(repl.chunks)].length > line.params.m["chunkSize"].i

\* C6, witness: an init that made overlapping chunks.
C6_WitnessOverlap ==
  /\ IsCall("init") /\ GotResult
  /\ Len(repl.chunks) >= 3
  /\ repl.chunks[2].start < repl.chunks[1].end

\* C9: after any init that succeeded, the session is initialized, holds no
\* buffers, and its content, lines and chunks come from the file just read and
\* from this request's chunkSize and chunkOverlap (4000 and 200 when omitted):
\* the session is the one the same init leaves on a new worker.
C9_InitReplaces ==
  (IsCall("init") /\ GotResult) =>
    LET cs == Get(line.params, "chunkSize", JInt(4000))
        co == Get(line.params, "chunkOverlap", JInt(200))
        lines == SplitLines(io.data)
    IN /\ io.st = "ok"
       /\ repl.initialized
       /\ repl.buffers = <<>>
       /\ repl.content = Some(io.data)
       /\ repl.content_lines = Some(lines)
       /\ repl.chunk_size = cs /\ repl.chunk_overlap = co
       /\ repl.chunks = Chunks(io.data, lines, cs.i, co.i)
       /\ repl = method_init(NewRepl, line.params, io, out.resp.result.loadedAt).repl

\* C9, witness: a re-init without chunkSize and chunkOverlap, of a session that
\* held buffers, another document and more chunks made with another chunkSize.
C9_Witness ==
  /\ IsCall("init") /\ GotResult
  /\ prev.initialized
  /\ prev.buffers # <<>>
  /\ prev.content # repl.content
  /\ DOMAIN line.params.m = {"documentPath"}
  /\ prev.chunk_size # JInt(4000)
  /\ Len(prev.chunks) > Len(repl.chunks)

\* The grep result of the request just handled, against the document: the first
\* min(M, maxMatches) of the M successive non-overlapping matches, in increasing
\* offset order, each with its matched text and 1-based line number; matchCount
\* does not exceed maxMatches; truncated says whether matchCount reached it; and
\* "ab" on "ab\nab\nab" gives 3 matches on lines 1, 2, 3.
GrepResultIsCapped ==
  LET c == repl.content.v
      pat == line.params.m["pattern"].t
      mm == Get(line.params, "maxMatches", JInt(10)).i
      all == FindIter(c, pat, 0)
      r == out.resp.result
  IN /\ r.matchCount = Min(Len(all), mm)
     /\ Len(r.matches) = r.matchCount
     /\ r.matchCount <= mm
     /\ \A i \in 1..Len(r.matches) :
          /\ r.matches[i].start = all[i].start
          /\ r.matches[i].end = all[i].end
          /\ r.matches[i].match = Slice(c, all[i].start, all[i].end)
          /\ r.matches[i].line = 1 + CountNL(Slice(c, 0, all[i].start))
          /\ i > 1 => r.matches[i - 1].end <= r.matches[i].start
     /\ r.truncated = (r.matchCount >= mm)
     /\ (c = ExampleDoc /\ pat = <<"A", "b">> /\ mm >= 3) =>
          [i \in 1..Len(r.matches) |-> r.matches[i].line] = <<1, 2, 3>>

\* C11 as stated: every grep result is capped as above, whatever maxMatches is.
C11_Grep ==
  (IsCall("grep") /\ GotResult) => GrepResultIsCapped

\* C11, amended: every grep result with maxMatches >= 0 (or omitted, 10) is
\* capped as above.
C11_GrepNonNegative ==
  (IsCall("grep") /\ GotResult
     /\ Get(line.params, "maxMatches", JInt(10)).i >= 0) => GrepResultIsCapped

\* C11, witness: a grep cut at maxMatches >= 1 with further matches beyond it.
C11_Witness ==
  /\ IsCall("grep") /\ GotResult
  /\ "maxMatches" \in DOMAIN line.params.m
  /\ line.params.m["maxMatches"].i >= 1
  /\ out.resp.result.matchCount = line.params.m["maxMatches"].i
  /\ Len(FindIter(repl.content.v, line.params.m["pattern"].t, 0))
       > line.params.m["maxMatches"].i
  /\ out.resp.result.truncated

\* C18: for every match of a grep result on line L, with c = contextLines >= 0
\* (2 when omitted) and totalLines lines in the document: contextLineStart =
\* max(0, L-c-1) + 1, contextLineEnd = min(totalLines, L+c), the window contains
\* L and reaches at most c lines before and after it, and context is the text
\* of exactly those whole lines of the document, joined by newlines.
C18_ContextWindow ==
  (IsCall("grep") /\ GotResult) =>
    LET c == repl.content.v
        cl == Get(line.params, "contextLines", JInt(2)).i
        total == CountNL(c) + 1
        r == out.resp.result
    IN \A i \in 1..Len(r.matches) :
         LET mt == r.matches[i]
             L == mt.line
             ctx == mt.context
         IN /\ mt.contextLineStart = Max(0, L - cl - 1) + 1
            /\ mt.contextLineEnd = Min(total, L + cl)
            /\ mt.contextLineStart <= L /\ L <= mt.contextLineEnd
            /\ L - mt.contextLineStart <= cl
            /\ mt.contextLineEnd - L <= cl
            /\ CountNL(ctx) = mt.contextLineEnd - mt.contextLineStart
            /\ \E o \in 0..Len(c) :
                 /\ Slice(c, o, o + Len(ctx)) = ctx
                 /\ o = 0 \/ c[o] = NL
                 /\ o + Len(ctx) = Len(c) \/ c[o + Len(ctx) + 1] = NL
                 /\ CountNL(Slice(c, 0, o)) + 1 = mt.contextLineStart

\* C18, witness: a match whose window, with contextLines >= 1, is cut by neither
\* end of the document.
C18_Witness ==
  /\ IsCall("grep") /\ GotResult
  /\ "contextLines" \in DOMAIN line.params.m
  /\ line.params.m["contextLines"].i >= 1
  /\ \E i \in 1..Len(out.resp.result.matches) :
       /\ out.resp.result.matches[i].contextLineStart > 1
       /\ out.resp.result.matches[i].contextLineEnd < CountNL(repl.content.v) + 1

\* C12: a non-blank line that is not valid JSON is answered at once with an
\* error of id null and code PARSE (-32700), without the dispatcher (no file is
\* read, the session is as before), and the loop goes on to the next line.
C12_ParseError ==
  (Handled /\ line.kind \in {"garbage", "deep"}) =>
    /\ out.written
    /\ out.resp.keys = {"jsonrpc", "id", "error"}
    /\ out.resp.id = JNull
    /\ out.resp.error.code = -32700
    /\ ~io.called
    /\ repl = prev
    /\ pc = "loop"

\* C12, the part that holds: the same of the lines json.loads rejects with
\* JSONDecodeError.
C12_DecodeError ==
  (Handled /\ line.kind = "garbage") =>
    /\ out.written
    /\ out.resp.keys = {"jsonrpc", "id", "error"}
    /\ out.resp.id = JNull
    /\ out.resp.error.code = -32700
    /\ ~io.called
    /\ repl = prev
    /\ pc = "loop"

\* C13: an init that succeeds after reading the same content, with the same
\* chunkSize and chunkOverlap, as an earlier init that succeeded, makes the same
\* chunk sequence (count, ids, indices, offsets, lengths, line bounds, content),
\* whatever was handled between the two.
C13_Deterministic ==
  (IsCall("init") /\ GotResult /\ seen.on /\ seen.set
     /\ seen.data = io.data
     /\ seen.chunk_size = repl.chunk_size
     /\ seen.chunk_overlap = repl.chunk_overlap) =>
    repl.chunks = seen.chunks

\* C13, witness: the second of two such inits, of a document of several chunks,
\* on a session that held a buffer, another document and fewer chunks.
C13_Witness ==
  /\ IsCall("init") /\ GotResult /\ seen.on /\ seen.set
  /\ seen.data = io.data
  /\ seen.chunk_size = repl.chunk_size
  /\ seen.chunk_overlap = repl.chunk_overlap
  /\ Len(repl.chunks) >= 2
  /\ prev.initialized
  /\ prev.content # repl.content
  /\ prev.buffers # <<>>
  /\ Len(prev.chunks) < Len(repl.chunks)

\* C15: in every initialized state the chunk at position i (from 0) has index i
\* and id "chunk_" followed by i padded with zeros to 3 digits, 0 <= start < end
\* <= len(content), length = end - start and content = content[start:end]; and
\* get_chunk(i) returns exactly that chunk for 0 <= i < chunkCount, and fails
\* without a result when index is absent or outside that range.
C15_Chunks ==
  /\ repl.initialized =>
       \A i \in 1..Len(repl.chunks) :
         LET ch == repl.chunks[i]
         IN /\ ch.index = i - 1
            /\ i <= 10 => ch.id = [prefix |-> "chunk_", digits |-> <<0, 0, i - 1>>]
            /\ \A j \in 1..Len(repl.chunks) : j # i => repl.chunks[j].id # ch.id
            /\ 0 <= ch.start /\ ch.start < ch.end /\ ch.end <= Len(repl.content.v)
            /\ ch.length = ch.end - ch.start
            /\ ch.content = Slice(repl.content.v, ch.start, ch.end)
  /\ (IsCall("get_chunk") /\ prev.initialized) =>
       LET index == Get(line.params, "index", JNull)
       IN IF index.k = "int" /\ 0 <= index.i /\ index.i < Len(prev.chunks)
          THEN /\ GotResult
               /\ out.resp.result.chunk = prev.chunks[index.i + 1]
               /\ out.resp.result.chunk.index = index.i
          ELSE GotError /\ "result" \notin out.resp.keys

\* C16: every chunk made by an init has lineStart = line(start) and lineEnd =
\* line(end - 1), where line(o) is 1 for o <= 0 and otherwise 1 + the number of
\* newlines strictly before offset o; hence 1 <= lineStart <= lineEnd <=
\* lineCount.  This includes an extended last chunk and content ending in a
\* newline.
C16_LineBounds ==
  (IsCall("init") /\ GotResult) =>
    LET c == repl.content.v
    IN \A i \in 1..Len(repl.chunks) :
         LET ch == repl.chunks[i]
         IN /\ ch.lineStart =
                 (IF ch.start <= 0 THEN 1 ELSE 1 + CountNL(Slice(c, 0, ch.start)))
            /\ ch.lineEnd =
                 (IF ch.end - 1 <= 0 THEN 1 ELSE 1 + CountNL(Slice(c, 0, ch.end - 1)))
            /\ 1 <= ch.lineStart /\ ch.lineStart <= ch.lineEnd
            /\ ch.lineEnd <= out.resp.result.lineCount

\* C16, the part that holds: the same, except the lineEnd of the last chunk of a
\* document that ends in a newline.
C16_ExceptFinalNewline ==
  (IsCall("init") /\ GotResult) =>
    LET c == repl.content.v
    IN \A i \in 1..Len(repl.chunks) :
         LET ch == repl.chunks[i]
         IN /\ ch.lineStart =
                 (IF ch.start <= 0 THEN 1 ELSE 1 + CountNL(Slice(c, 0, ch.start)))
            /\ (i < Len(repl.chunks) \/ c[Len(c)] # NL) =>
                 ch.lineEnd =
                   (IF ch.end - 1 <= 0 THEN 1 ELSE 1 + CountNL(Slice(c, 0, ch.end - 1)))
            /\ 1 <= ch.lineStart /\ ch.lineStart <= ch.lineEnd
            /\ ch.lineEnd <= out.resp.result.lineCount

\* C17: for chunkSize > chunkOverlap >= 0 and step = chunkSize - chunkOverlap,
\* the chunks start at 0, step, 2*step, ... and stop at the first advance that
\* leaves a tail t = len(content) - start with t <= 0, or with 0 < t and
\* 4*t < chunkSize, in which case the last chunk is extended to len(content);
\* so no chunk but the first has a length L with 4*L < chunkSize, and a document
\* that is not empty keeps its first chunk.
C17_TailMerge ==
  (IsCall("init") /\ GotResult
     /\ line.params.m["chunkSize"].i > line.params.m["chunkOverlap"].i
     /\ line.params.m["chunkOverlap"].i >= 0) =>
    LET c == repl.content.v
        ch == repl.chunks
        cs == line.params.m["chunkSize"].i
        step == cs - line.params.m["chunkOverlap"].i
        n == Len(ch)
        Tiny(t) == 0 < t /\ 4 * t < cs
    IN /\ c # <<>> => n >= 1
       /\ \A i \in 1..n :
            /\ ch[i].start = (i - 1) * step
            /\ i < n => ch[i].end = Min(ch[i].start + cs, Len(c))
            /\ i < n => ~Tiny(Len(c) - i * step)
            /\ i > 1 => ~(4 * ch[i].length < cs)
       /\ n >= 1 =>
            /\ Len(c) - n * step <= 0 \/ Tiny(Len(c) - n * step)
            /\ ch[n].end = Len(c)

\* C17, the part that holds: the same with the tail compared with the whole
\* number chunkSize // 4, as the code computes it.
C17_TailMergeFloor ==
  (IsCall("init") /\ GotResult
     /\ line.params.m["chunkSize"].i > line.params.m["chunkOverlap"].i
     /\ line.params.m["chunkOverlap"].i >= 0) =>
    LET c == repl.content.v
        ch == repl.chunks
        cs == line.params.m["chunkSize"].i
        step == cs - line.params.m["chunkOverlap"].i
        n == Len(ch)
        Tiny(t) == 0 < t /\ t < cs \div 4
    IN /\ c # <<>> => n >= 1
       /\ \A i \in 1..n :
            /\ ch[i].start = (i - 1) * step
            /\ i < n => ch[i].end = Min(ch[i].start + cs, Len(c))
            /\ i < n => ~Tiny(Len(c) - i * step)
            /\ i > 1 => ~(ch[i].length < cs \div 4)
       /\ n >= 1 =>
            /\ Len(c) - n * step <= 0 \/ Tiny(Len(c) - n * step)
            /\ ch[n].end = Len(c)

\* C19: an init answered with an error leaves the session's content, lines,
\* chunks, buffers and initialized flag as they were before the request.
C19_InitAllOrNothing ==
  (IsCall("init") /\ GotError) =>
    /\ repl.content = prev.content
    /\ repl.content_lines = prev.content_lines
    /\ repl.chunks = prev.chunks
    /\ repl.buffers = prev.buffers
    /\ repl.initialized = prev.initialized

\* C19, the part that holds: the same of the inits that fail before the file
\* was read (no documentPath, a file that does not exist or cannot be read).
C19_FailedBeforeRead ==
  (IsCall("init") /\ GotError /\ io.st # "ok") =>
    /\ repl.content = prev.content
    /\ repl.content_lines = prev.content_lines
    /\ repl.chunks = prev.chunks
    /\ repl.buffers = prev.buffers
    /\ repl.initialized = prev.initialized

\* C20: peek, grep, get_chunks, get_chunk, get_buffers, query and shutdown leave
\* the whole session as it was, whether they succeed or fail; get_chunks without
\* includeContent returns as many chunks as are stored, none with a content,
\* while every stored chunk keeps its content, so that get_chunk and get_chunks
\* with includeContent return chunks with their content; and no request makes
\* an initialized session uninitialized.
C20_ReadOnly ==
  /\ (\E m \in {"peek", "grep", "get_chunks", "get_chunk", "get_buffers", "query",
                "shutdown"} : IsCall(m)) => repl = prev
  /\ \A i \in 1..Len(repl.chunks) : "content" \in DOMAIN repl.chunks[i]
  /\ (IsCall("get_chunks") /\ GotResult) =>
       /\ Len(out.resp.result.chunks) = Len(repl.chunks)
       /\ \A i \in 1..Len(out.resp.result.chunks) :
            IF Truthy(Get(line.params, "includeContent", JBool(FALSE)))
            THEN out.resp.result.chunks[i] = repl.chunks[i]
            ELSE /\ "content" \notin DOMAIN out.resp.result.chunks[i]
                 /\ \A key \in DOMAIN out.resp.result.chunks[i] :
                      out.resp.result.chunks[i][key] = repl.chunks[i][key]
  /\ (IsCall("get_chunk") /\ GotResult) =>
       "content" \in DOMAIN out.resp.result.chunk
  /\ (Handled /\ prev.initialized) => repl.initialized

\* C20, the part that holds: the same, where only the requests that are not eval
\* are said to keep an initialized session initialized.
C20_ReadOnlyMethods ==
  /\ (\E m \in {"peek", "grep", "get_chunks", "get_chunk", "get_buffers", "query",
                "shutdown"} : IsCall(m)) => repl = prev
  /\ \A i \in 1..Len(repl.chunks) : "content" \in DOMAIN repl.chunks[i]
  /\ (IsCall("get_chunks") /\ GotResult) =>
       /\ Len(out.resp.result.chunks) = Len(repl.chunks)
       /\ \A i \in 1..Len(out.resp.result.chunks) :
            IF Truthy(Get(line.params, "includeContent", JBool(FALSE)))
            THEN out.resp.result.chunks[i] = repl.chunks[i]
            ELSE /\ "content" \notin DOMAIN out.resp.result.chunks[i]
                 /\ \A key \in DOMAIN out.resp.result.chunks[i] :
                      out.resp.result.chunks[i][key] = repl.chunks[i][key]
  /\ (IsCall("get_chunk") /\ GotResult) =>
       "content" \in DOMAIN out.resp.result.chunk
  /\ (Handled /\ ~IsCall("eval") /\ prev.initialized) => repl.initialized

\* C20, witness: a get_chunks without includeContent answered from a session of
\* several chunks and a buffer.
C20_Witness ==
  /\ IsCall("get_chunks") /\ GotResult
  /\ "includeContent" \notin DOMAIN line.params.m
  /\ Len(repl.chunks) >= 2
  /\ repl.buffers # <<>>

\* The number of entries of the keyword list kws found in the lowercased
\* content of chunk k (0-based) of the loaded document.
KeywordsFound(kws, k) ==
  Cardinality({i \in 1..Len(kws) :
                 Contains(LowerStr(repl.chunks[k + 1].content), kws[i])})

\* The number of places of the lowercased content of chunk k (0-based) where a
\* keyword of kws starts.
KeywordOccurrences(kws, k) ==
  LET c == LowerStr(repl.chunks[k + 1].content)
      words == {kws[i] : i \in 1..Len(kws)}
  IN Cardinality({<<w, p>> \in words \X (1..Len(c)) :
                    /\ p + Len(w) - 1 <= Len(c)
                    /\ SubSeq(c, p, p + Len(w) - 1) = w})

\* A query result under a scoring ScoreOf(kws, k): keywords are the lowercase
\* words of the query longer than 3 characters; at most 5 chunks, each with its
\* score, which is > 0; descending score, ties in ascending chunk index; every
\* chunk left out scores 0 or comes after all the returned ones in that order.
QueryRanked(ScoreOf(_, _)) ==
  (IsCall("query") /\ GotResult) =>
    LET r == out.resp.result
        kws == r.keywords
        rc == r.relevantChunks
        positive == {k \in 0..(Len(repl.chunks) - 1) : ScoreOf(kws, k) > 0}
        Before(s1, k1, s2, k2) == s1 > s2 \/ (s1 = s2 /\ k1 < k2)
    IN /\ kws = Keywords(line.params.m["query"].t)
       /\ \A i \in 1..Len(kws) :
            Len(kws[i]) > 3 /\ \A j \in 1..Len(kws[i]) : kws[i][j] \in {"a", "b"}
       /\ Len(rc) <= 5
       /\ Len(rc) = Min(5, Cardinality(positive))
       /\ \A i \in 1..Len(rc) :
            /\ rc[i].chunkIndex \in positive
            /\ rc[i].score = ScoreOf(kws, rc[i].chunkIndex)
            /\ rc[i].score > 0
            /\ rc[i].preview = repl.chunks[rc[i].chunkIndex + 1].content
            /\ i > 1 => Before(rc[i - 1].score, rc[i - 1].chunkIndex,
                               rc[i].score, rc[i].chunkIndex)
       /\ \A k \in positive :
            (\A i \in 1..Len(rc) : rc[i].chunkIndex # k) =>
              \A i \in 1..Len(rc) :
                Before(rc[i].score, rc[i].chunkIndex, ScoreOf(kws, k), k)
       /\ r.totalChunks = Len(repl.chunks)

\* C14: query returns at most 5 chunks, each with score > 0, where the score of
\* a chunk is the count of the occurrences of the keywords (lowercase words of
\* the query longer than 3 characters) in its lowercased content; they are the
\* highest-scored chunks, in descending score order with ties in ascending chunk
\* index, and zero-score chunks are excluded.
C14_QueryOccurrences == QueryRanked(KeywordOccurrences)

\* C14, amended: the same, where the score of a chunk is the number of entries
\* of the keyword list (a word the query repeats counts each time) that occur
\* at least once in its lowercased content.
C14_QueryKeywordsFound == QueryRanked(KeywordsFound)

\* C14, witness: a query result cut to 5 chunks of a document of more chunks,
\* holding both scores and chunks of equal score, with a chunk that carries a
\* keyword twice among them and a zero-score chunk left out.
C14_Witness ==
  /\ IsCall("query") /\ GotResult
  /\ Len(out.resp.result.relevantChunks) = 5
  /\ out.resp.result.relevantChunks[1].score = 2
  /\ out.resp.result.relevantChunks[4].score = 1
  /\ out.resp.result.relevantChunks[5].score = 1
  /\ out.resp.result.relevantChunks[1].chunkIndex
       > out.resp.result.relevantChunks[5].chunkIndex
  /\ KeywordOccurrences(out.resp.result.keywords,
                        out.resp.result.relevantChunks[5].chunkIndex) = 2
  /\ Len(repl.chunks) = MaxBlocks
  /\ \E k \in 0..(Len(repl.chunks) - 1) :
       KeywordsFound(out.resp.result.keywords, k) = 0

====
